---- MODULE Spec2Model ----
(***************************************************************************)
(* Model of AcademiaVeritas/backend/services/blockchain_service.py.        *)
(*                                                                         *)
(* Python values are modelled as follows.                                  *)
(*   - a str is a sequence of characters; literal text of the source is    *)
(*     kept as one element (<<"0x">> is the two-character text 0x);        *)
(*   - an Optional value is None == <<>> or Some(v) == <<v>>;              *)
(*   - a dict is a record with exactly the keys the source writes;         *)
(*   - a call that may raise returns [raised, value].                      *)
(* hashlib.sha256 is modelled as a collision-free function: the digest of  *)
(* a byte string is a term built from that byte string.                    *)
(***************************************************************************)
EXTENDS Integers, Sequences, FiniteSets, TLC

\* ---------------------------------------------------------------- bounds
\* longest certificate hash explored; the digest length of a well-formed
\* hash (the spec's "fixed length", 64 in its example) is this length too
MaxLen == 2

\* number of distinct (certificate_hash, institution_id) pairs whose first
\* store call the history remembers
MaxRecords == 1

\* ---------------------------------------------------------------- values
None == <<>>

Some(v) == <<v>>

\* a lone surrogate code point: a legal character of a Python str that
\* str.encode() (utf-8, strict) refuses
SURROGATE == "\\ud800"

Chars == {"a", "b", SURROGATE}

HexChars == {"a", "b"}

RECURSIVE HexStrsOfLen(_)
HexStrsOfLen(n) ==
    IF n = 0 THEN {<<>>}
    ELSE {Append(s, c) : s \in HexStrsOfLen(n - 1), c \in HexChars}

\* the strings of length n explored: every hex string, and every hex string
\* with its last character replaced by the surrogate
StrsOfLen(n) ==
    IF n = 0 THEN {<<>>}
    ELSE {Append(s, c) : s \in HexStrsOfLen(n - 1), c \in Chars}

\* the certificate_hash arguments explored
Hashes == UNION {StrsOfLen(n) : n \in 0..MaxLen}

\* the institution_id arguments explored
InstitutionIds == {1, 7}

\* the values of INFURA_API_KEY at construction: unset, empty, set
ApiKeys == {None, Some(<<>>), Some(<<"k">>)}

\* the values of SECRET_KEY in the environment: unset, set
SecretKeys == {None, Some(<<"s">>)}

VARIABLES
    infura_api_key,   \* self.infura_api_key (Optional str)
    network_url,      \* self.network_url (Optional str)
    env_SECRET_KEY,   \* os.environ.get('SECRET_KEY') (Optional str)
    history,          \* first store call of each (hash, institution) pair
    last,             \* the call that has just returned
    constructed       \* the instance, and its verdicts, right after __init__

vars == <<infura_api_key, network_url, env_SECRET_KEY, history, last, constructed>>

\* ---------------------------------------------------------------- helpers
\* Python truth value of an Optional str: None and '' are falsy
Truthy(v) == v # None /\ v[1] # <<>>

\* os.getenv(name, default) on an Optional environment value
getenv(v, default) == IF v = None THEN default ELSE v[1]

Digit(d) == <<"0", "1", "2", "3", "4", "5", "6", "7", "8", "9">>[d + 1]

RECURSIVE NatToStr(_)
NatToStr(n) ==
    IF n < 10 THEN <<Digit(n)>>
    ELSE Append(NatToStr(n \div 10), Digit(n % 10))

\* format(int): the decimal text an f-string puts for an int
IntToStr(n) == IF n < 0 THEN <<"-">> \o NatToStr(0 - n) ELSE NatToStr(n)

\* str.encode(): raises UnicodeEncodeError on a lone surrogate; the value of
\* a raised call is str(e)
encode(data) ==
    IF \E i \in 1..Len(data) : data[i] = SURROGATE
    THEN [raised |-> TRUE,
          value |-> <<"'utf-8' codec can't encode character: surrogates not allowed">>]
    ELSE [raised |-> FALSE, value |-> <<"utf-8", data>>]

\* hashlib.sha256(bytes).hexdigest()[:40]
sha256_hexdigest40(bytes) == <<"sha256.hexdigest[:40]", bytes>>

\* ---------------------------------------------------------------- constants
\* 'block_number' of a successful store result
STORE_BLOCK_NUMBER == 12345678

\* 'gas_used' of a successful store result
STORE_GAS_USED == 21000

\* 'block_number' of a positive verification result
VERIFY_BLOCK_NUMBER == 12345678

\* the institution id verify_certificate_hash passes to _generate_mock_tx_hash
VERIFY_INSTITUTION_ID == 1

\* ---------------------------------------------------------------- methods
\* BlockchainService.__init__: the network_url built from the key
init_network_url(key) ==
    IF Truthy(key) THEN Some(<<"https://sepolia.infura.io/v3/">> \o key[1])
    ELSE None

\* _generate_mock_tx_hash with the number of stored records mixed into the
\* hashed data, as a per-transaction nonce would be
_generate_mock_tx_hash_nonce(certificate_hash, institution_id) ==
    LET data == certificate_hash \o <<"_">> \o IntToStr(institution_id)
                    \o <<"_">> \o getenv(env_SECRET_KEY, <<"default">>)
                    \o <<"_">> \o IntToStr(Cardinality(history))
        bytes == encode(data)
    IN  IF bytes.raised THEN bytes
        ELSE [raised |-> FALSE,
              value |-> <<"0x", sha256_hexdigest40(bytes.value)>>]

\* BlockchainService._generate_mock_tx_hash; raises when encode() raises
_generate_mock_tx_hash(certificate_hash, institution_id) ==
    LET data == certificate_hash \o <<"_">> \o IntToStr(institution_id)
                    \o <<"_">> \o getenv(env_SECRET_KEY, <<"default">>)
        bytes == encode(data)
    IN  IF bytes.raised THEN bytes
        ELSE [raised |-> FALSE,
              value |-> <<"0x", sha256_hexdigest40(bytes.value)>>]

\* _simulate_blockchain_verification with an off-by-one length test
_simulate_blockchain_verification_len(certificate_hash) ==
    Len(certificate_hash) > 1 /\ certificate_hash[1] = "a"

\* _simulate_blockchain_verification as a lookup of the hashes stored so far
_simulate_blockchain_verification_lookup(certificate_hash) ==
    \E r \in history : r.certificate_hash = certificate_hash

\* BlockchainService._simulate_blockchain_verification
_simulate_blockchain_verification(certificate_hash) ==
    Len(certificate_hash) > 0 /\ certificate_hash[1] = "a"

\* store_certificate_hash testing the key with "is None" instead of "not"
store_certificate_hash_isNone(certificate_hash, institution_id) ==
    IF infura_api_key = None
    THEN [raised |-> FALSE,
          value |-> [success |-> FALSE,
                     error |-> <<"Blockchain service not configured. INFURA_API_KEY is missing.">>,
                     tx_hash |-> None]]
    ELSE LET mock_tx_hash == _generate_mock_tx_hash(certificate_hash, institution_id)
         IN  IF mock_tx_hash.raised
             THEN [raised |-> FALSE,
                   value |-> [success |-> FALSE,
                              error |-> <<"Blockchain transaction failed: ">> \o mock_tx_hash.value,
                              tx_hash |-> None]]
             ELSE [raised |-> FALSE,
                   value |-> [success |-> TRUE,
                              tx_hash |-> Some(mock_tx_hash.value),
                              block_number |-> Some(STORE_BLOCK_NUMBER),
                              gas_used |-> STORE_GAS_USED,
                              message |-> <<"Certificate hash stored on blockchain successfully">>]]

\* store_certificate_hash without its try/except: the exception escapes
store_certificate_hash_noCatch(certificate_hash, institution_id) ==
    IF ~Truthy(infura_api_key)
    THEN [raised |-> FALSE,
          value |-> [success |-> FALSE,
                     error |-> <<"Blockchain service not configured. INFURA_API_KEY is missing.">>,
                     tx_hash |-> None]]
    ELSE LET mock_tx_hash == _generate_mock_tx_hash(certificate_hash, institution_id)
         IN  IF mock_tx_hash.raised
             THEN [raised |-> TRUE, value |-> [exception |-> mock_tx_hash.value]]
             ELSE [raised |-> FALSE,
                   value |-> [success |-> TRUE,
                              tx_hash |-> Some(mock_tx_hash.value),
                              block_number |-> Some(STORE_BLOCK_NUMBER),
                              gas_used |-> STORE_GAS_USED,
                              message |-> <<"Certificate hash stored on blockchain successfully">>]]

\* BlockchainService.store_certificate_hash
store_certificate_hash(certificate_hash, institution_id) ==
    IF ~Truthy(infura_api_key)
    THEN [raised |-> FALSE,
          value |-> [success |-> FALSE,
                     error |-> <<"Blockchain service not configured. INFURA_API_KEY is missing.">>,
                     tx_hash |-> None]]
    ELSE LET mock_tx_hash == _generate_mock_tx_hash(certificate_hash, institution_id)
         IN  IF mock_tx_hash.raised
             THEN [raised |-> FALSE,
                   value |-> [success |-> FALSE,
                              error |-> <<"Blockchain transaction failed: ">> \o mock_tx_hash.value,
                              tx_hash |-> None]]
             ELSE [raised |-> FALSE,
                   value |-> [success |-> TRUE,
                              tx_hash |-> Some(mock_tx_hash.value),
                              block_number |-> Some(STORE_BLOCK_NUMBER),
                              gas_used |-> STORE_GAS_USED,
                              message |-> <<"Certificate hash stored on blockchain successfully">>]]

\* verify_certificate_hash with the block number not made conditional
verify_certificate_hash_blockAlways(certificate_hash) ==
    IF ~Truthy(infura_api_key)
    THEN [raised |-> FALSE,
          value |-> [verified |-> FALSE,
                     error |-> <<"Blockchain service not configured">>,
                     tx_hash |-> None]]
    ELSE LET is_verified == _simulate_blockchain_verification(certificate_hash)
             tx == IF is_verified
                   THEN _generate_mock_tx_hash(certificate_hash, VERIFY_INSTITUTION_ID)
                   ELSE [raised |-> FALSE, value |-> None]
         IN  IF tx.raised
             THEN [raised |-> FALSE,
                   value |-> [verified |-> FALSE,
                              error |-> <<"Blockchain verification failed: ">> \o tx.value,
                              tx_hash |-> None]]
             ELSE [raised |-> FALSE,
                   value |-> [verified |-> is_verified,
                              tx_hash |-> IF is_verified THEN Some(tx.value) ELSE None,
                              block_number |-> Some(VERIFY_BLOCK_NUMBER),
                              message |-> IF is_verified
                                          THEN <<"Certificate verified on blockchain">>
                                          ELSE <<"Certificate not found on blockchain">>]]

\* BlockchainService.verify_certificate_hash
verify_certificate_hash(certificate_hash) ==
    IF ~Truthy(infura_api_key)
    THEN [raised |-> FALSE,
          value |-> [verified |-> FALSE,
                     error |-> <<"Blockchain service not configured">>,
                     tx_hash |-> None]]
    ELSE LET is_verified == _simulate_blockchain_verification(certificate_hash)
             tx == IF is_verified
                   THEN _generate_mock_tx_hash(certificate_hash, VERIFY_INSTITUTION_ID)
                   ELSE [raised |-> FALSE, value |-> None]
         IN  IF tx.raised
             THEN [raised |-> FALSE,
                   value |-> [verified |-> FALSE,
                              error |-> <<"Blockchain verification failed: ">> \o tx.value,
                              tx_hash |-> None]]
             ELSE [raised |-> FALSE,
                   value |-> [verified |-> is_verified,
                              tx_hash |-> IF is_verified THEN Some(tx.value) ELSE None,
                              block_number |-> IF is_verified THEN Some(VERIFY_BLOCK_NUMBER) ELSE None,
                              message |-> IF is_verified
                                          THEN <<"Certificate verified on blockchain">>
                                          ELSE <<"Certificate not found on blockchain">>]]

\* module function store_certificate_on_blockchain, on the global instance
store_certificate_on_blockchain(certificate_hash, institution_id) ==
    store_certificate_hash(certificate_hash, institution_id)

\* module function verify_certificate_on_blockchain, on the global instance
verify_certificate_on_blockchain(certificate_hash) ==
    verify_certificate_hash(certificate_hash)

\* ---------------------------------------------------------------- machine
\* the (hash, institution) pairs whose first store call is remembered
Seen(h, id) ==
    \E r \in history : r.certificate_hash = h /\ r.institution_id = id

\* the verdict verify_certificate_hash(h) gives in the current state
VerdictOf(h) ==
    LET out == verify_certificate_on_blockchain(h)
    IN  ~out.raised /\ out.value.verified

\* the global instance after construction, before any call
Init ==
    /\ infura_api_key \in ApiKeys
    /\ network_url = init_network_url(infura_api_key)
    /\ env_SECRET_KEY \in SecretKeys
    /\ history = {}
    /\ last = [op |-> "none", certificate_hash |-> <<>>, institution_id |-> None,
               repeat |-> FALSE, outcome |-> [raised |-> FALSE, value |-> [none |-> TRUE]]]
    /\ constructed = [infura_api_key |-> infura_api_key,
                      network_url |-> network_url,
                      verdict |-> [h \in Hashes |-> VerdictOf(h)]]

\* a caller stores a certificate hash
Store(h, id) ==
    /\ Seen(h, id) \/ Cardinality(history) < MaxRecords
    /\ LET out == store_certificate_on_blockchain(h, id)
       IN  /\ last' = [op |-> "store", certificate_hash |-> h,
                       institution_id |-> Some(id), repeat |-> Seen(h, id),
                       outcome |-> out]
           /\ history' = IF Seen(h, id) THEN history
                         ELSE history \cup {[certificate_hash |-> h,
                                             institution_id |-> id,
                                             outcome |-> out]}
    /\ UNCHANGED <<infura_api_key, network_url, env_SECRET_KEY, constructed>>

\* a caller verifies a certificate hash
Verify(h) ==
    /\ last' = [op |-> "verify", certificate_hash |-> h,
                institution_id |-> None, repeat |-> FALSE,
                outcome |-> verify_certificate_on_blockchain(h)]
    /\ UNCHANGED <<infura_api_key, network_url, env_SECRET_KEY, history, constructed>>

Next ==
    \/ \E h \in Hashes, id \in InstitutionIds : Store(h, id)
    \/ \E h \in Hashes : Verify(h)

Spec == Init /\ [][Next]_vars

\* ---------------------------------------------------------------- claims
\* the service was configured at construction
Configured == infura_api_key # None /\ infura_api_key # Some(<<>>)

\* h was passed to store_certificate_hash in an earlier or the current call
Submitted(h) == \E r \in history : r.certificate_hash = h

\* h was passed to store_certificate_hash and that call returned success
Anchored(h) ==
    \E r \in history :
        /\ r.certificate_hash = h
        /\ ~r.outcome.raised
        /\ r.outcome.value.success

\* a well-formed content hash: hex characters only, of the fixed length
WellFormed(h) == Len(h) = MaxLen /\ \A i \in 1..Len(h) : h[i] \in HexChars

\* h can be encoded as UTF-8
Encodable(h) == \A i \in 1..Len(h) : h[i] # SURROGATE

\* h begins with the character 'a'
BeginsWithA(h) == h # <<>> /\ Head(h) = "a"

\* dict.get(key): the value under key, None when the key is absent
Get(d, key) == IF key \in DOMAIN d THEN d[key] ELSE None

\* the explanatory text of a result: its 'message', else its 'error'
Explanation(d) ==
    IF "message" \in DOMAIN d THEN d.message
    ELSE IF "error" \in DOMAIN d THEN d.error
    ELSE <<>>

Stored == last.op = "store"

Verified == last.op = "verify"

Returned == ~last.outcome.raised

Result == last.outcome.value

\* C1: verify_certificate_hash(h) returns verified=false for every hash h
\* that was never passed to store_certificate_hash.
C1_NeverStoredNotVerified ==
    (Verified /\ ~Submitted(last.certificate_hash))
        => (Returned /\ Result.verified = FALSE)

\* C2: after store_certificate_hash(h, id) returned success for a well-formed
\* hash h, verify_certificate_hash(h) returns verified=true with a non-null
\* transaction id and a non-null block number.
C2_StoredThenVerified ==
    (Verified /\ WellFormed(last.certificate_hash) /\ Anchored(last.certificate_hash))
        => /\ Returned
           /\ Result.verified = TRUE
           /\ Get(Result, "tx_hash") # None
           /\ Get(Result, "block_number") # None

\* C3: a second store_certificate_hash(h, id), after the first one completed
\* and after any calls in between, returns what the first one returned (the
\* same success flag, transaction id, block number and every other field);
\* checked for every hash, well-formed or not.
C3_StoreIdempotent ==
    (Stored /\ last.repeat)
        => \A r \in history :
               (r.certificate_hash = last.certificate_hash
                    /\ Some(r.institution_id) = last.institution_id)
                   => r.outcome = last.outcome

\* C3 witness: a well-formed hash stored successfully for the second time
C3_Witness ==
    /\ Stored
    /\ last.repeat
    /\ WellFormed(last.certificate_hash)
    /\ Returned
    /\ Result.success

\* C4: without a configured credential (INFURA_API_KEY unset or empty) every
\* store_certificate_hash returns success=false, the configuration error and
\* a null tx_hash, and a later verify of a stored hash is not verified.
C4_UnconfiguredStoreFails ==
    ~Configured
        => /\ Stored
               => /\ Returned
                  /\ DOMAIN Result = {"success", "error", "tx_hash"}
                  /\ Result.success = FALSE
                  /\ Result.error = <<"Blockchain service not configured. INFURA_API_KEY is missing.">>
                  /\ Result.tx_hash = None
           /\ (Verified /\ Submitted(last.certificate_hash))
               => /\ Returned
                  /\ Result.verified = FALSE
                  /\ Result.tx_hash = None

\* C4 witness: the key is the empty string, a hash beginning with 'a' was
\* stored and has then been verified
C4_Witness ==
    /\ infura_api_key = Some(<<>>)
    /\ Verified
    /\ Submitted(last.certificate_hash)
    /\ BeginsWithA(last.certificate_hash)

\* C5: store_certificate_hash never returns success, and never a transaction
\* id, for a malformed content hash (empty, or not a hex digest of the fixed
\* length).
C5_MalformedRejected ==
    (Stored /\ ~WellFormed(last.certificate_hash))
        => /\ Returned
           /\ Result.success = FALSE
           /\ Result.tx_hash = None

\* C6 as stated: verify_certificate_hash reports verified=true for every hash
\* beginning with 'a', in every reachable state.
C6_PrefixAlwaysVerified ==
    (Verified /\ BeginsWithA(last.certificate_hash))
        => (Returned /\ Result.verified = TRUE)

\* C6 as amended: when the service is configured and the hash is UTF-8
\* encodable, verify_certificate_hash reports verified=true for every hash
\* beginning with 'a'.
C6_PrefixVerifiedWhenConfigured ==
    (Verified /\ BeginsWithA(last.certificate_hash)
        /\ Configured /\ Encodable(last.certificate_hash))
        => (Returned /\ Result.verified = TRUE)

\* C6 witness: a configured service has verified an encodable hash that
\* begins with 'a' and was never stored
C6_Witness ==
    /\ Verified
    /\ Configured
    /\ BeginsWithA(last.certificate_hash)
    /\ Encodable(last.certificate_hash)
    /\ ~Submitted(last.certificate_hash)

\* C7: every result of verify_certificate_hash is either verified=true with a
\* non-null transaction id and a non-null block number, or verified=false
\* with a null transaction id, no block number and an explanatory text (its
\* 'message', or its 'error' when it has no 'message').
C7_VerifyShapes ==
    Verified
        => /\ Returned
           /\ \/ /\ Result.verified = TRUE
                 /\ Get(Result, "tx_hash") # None
                 /\ Get(Result, "block_number") # None
              \/ /\ Result.verified = FALSE
                 /\ Get(Result, "tx_hash") = None
                 /\ Get(Result, "block_number") = None
                 /\ Explanation(Result) # <<>>

\* C7 witness: a configured service has answered "not found"
C7_Witness ==
    /\ Verified
    /\ Configured
    /\ Result.verified = FALSE
    /\ "block_number" \in DOMAIN Result

\* C8: when verify_certificate_hash(h) returns verified=true after a
\* successful store_certificate_hash(h, id), its transaction id and block
\* number are the ones that store call returned, for every institution id.
C8_VerifyReturnsStoredTx ==
    (Verified /\ Returned /\ Result.verified = TRUE)
        => \A r \in history :
               (r.certificate_hash = last.certificate_hash
                    /\ ~r.outcome.raised /\ r.outcome.value.success)
                   => /\ Result.tx_hash = r.outcome.value.tx_hash
                      /\ Result.block_number = r.outcome.value.block_number

\* C9: after any sequence of store and verify calls infura_api_key and
\* network_url are what __init__ set them to, and the verdict of
\* verify_certificate_hash(h) is, for every hash h, the one it was right
\* after construction: it depends on h and on the configuration only.
C9_FrameAndVerdict ==
    /\ infura_api_key = constructed.infura_api_key
    /\ network_url = constructed.network_url
    /\ \A h \in Hashes : VerdictOf(h) = constructed.verdict[h]
    /\ \A h \in Hashes : VerdictOf(h) => Configured

\* C9 witness: a configured service has verified a hash after storing it
C9_Witness ==
    /\ Verified
    /\ Configured
    /\ Anchored(last.certificate_hash)

\* C10: store_certificate_hash returns every failure as a value and raises
\* nothing; success=true exactly when tx_hash is non-null; a success result
\* has a transaction id, a block number and no error; a failure result has
\* an error text and a null tx_hash.
C10_StoreResultShape ==
    Stored
        => /\ Returned
           /\ Result.success \in BOOLEAN
           /\ Result.success <=> (Result.tx_hash # None)
           /\ Result.success
               => /\ Get(Result, "block_number") # None
                  /\ "error" \notin DOMAIN Result
           /\ ~Result.success
               => /\ Get(Result, "error") # None
                  /\ Result.tx_hash = None

\* C10 witness: a configured service has failed to store a hash that cannot
\* be encoded
C10_Witness ==
    /\ Stored
    /\ Configured
    /\ ~Encodable(last.certificate_hash)
    /\ Returned
    /\ Result.success = FALSE

====
